---- MODULE Spec2Model ----
(***************************************************************************)
(* Model of mkv_to_web.py: a command-line front end that builds ffmpeg     *)
(* command lines, runs them as subprocesses and reports the outcome, for   *)
(* one file or for every .mkv file of a directory.                         *)
(*                                                                         *)
(* Paths and file names are sequences of one-character strings, so that    *)
(* os.path.splitext, str.lower and str.endswith are computed character by  *)
(* character.  Command-line tokens handed to a subprocess are strings.     *)
(* Python's None is the empty sequence <<>>; an optional number is <<>> or *)
(* the one-element sequence <<n>>.  A float with one decimal is held as    *)
(* its number of tenths.                                                   *)
(***************************************************************************)
EXTENDS Integers, Sequences, FiniteSets, TLC

VARIABLES
    argv,      \* the parsed command line (args of main), or NoArgs
    fs,        \* regular files on disk: path -> who wrote the content
    listing,   \* os.listdir(InputDir): the entry names, in listing order
    pc,        \* position of the main program
    batch,     \* locals of batch_convert: mkv_files, i, success_count, output_dir
    calls,     \* history: one record per convert_mkv_to_webp invocation
    probes,    \* history: one record per get_video_info invocation
    out,       \* what was printed, as message tags, in order
    status     \* process exit status (<<>> while running)

vars == <<argv, fs, listing, pc, batch, calls, probes, out, status>>

-----------------------------------------------------------------------------
(* Bounds of the model *)

\* Largest number of entries in the listed directory.
MaxFiles == 2
\* Largest width / height value drawn for the command builder.
MaxDim == 2

(* Program constants *)
DefaultFps == 12
DefaultQuality == 80

None == <<>>
Some(n) == <<n>>

\* Python truthiness of an optional number: None and 0 are falsy.
Truthy(x) == x # None /\ x[1] # 0

-----------------------------------------------------------------------------
(* Strings *)

RECURSIVE Str(_)
\* ''.join(chars): a character sequence as one string token.
Str(cs) == IF cs = <<>> THEN "" ELSE Head(cs) \o Str(Tail(cs))

Digit(d) == CASE d = 0 -> "0" [] d = 1 -> "1" [] d = 2 -> "2" [] d = 3 -> "3"
              [] d = 4 -> "4" [] d = 5 -> "5" [] d = 6 -> "6" [] d = 7 -> "7"
              [] d = 8 -> "8" [] d = 9 -> "9"

RECURSIVE NatStr(_)
NatStr(n) == IF n < 10 THEN Digit(n) ELSE NatStr(n \div 10) \o Digit(n % 10)

\* str(n) of a Python int.
IntStr(n) == IF n < 0 THEN "-" \o NatStr(0 - n) ELSE NatStr(n)

\* str(x) of a Python float holding t tenths: 15 -> "1.5", 20 -> "2.0".
FloatStr(t) == IF t < 0 THEN "-" \o NatStr((0 - t) \div 10) \o "." \o Digit((0 - t) % 10)
               ELSE NatStr(t \div 10) \o "." \o Digit(t % 10)

\* str.lower(), one character.
LowerChar(c) == CASE c = "M" -> "m" [] c = "K" -> "k" [] c = "V" -> "v"
                  [] c = "A" -> "a" [] OTHER -> c

Lower(cs) == [i \in 1..Len(cs) |-> LowerChar(cs[i])]

EndsWith(cs, suffix) ==
    /\ Len(cs) >= Len(suffix)
    /\ SubSeq(cs, Len(cs) - Len(suffix) + 1, Len(cs)) = suffix

\* s.rfind(c): the last index of c (1-based), 0 when absent.
RFind(cs, c) ==
    LET hits == {i \in 1..Len(cs) : cs[i] = c}
    IN  IF hits = {} THEN 0 ELSE CHOOSE i \in hits : \A j \in hits : j <= i

\* os.path.splitext(p)[0]: the last dot splits, unless only dots precede it
\* in the last path component.
SplitextRoot(p) ==
    LET sepIndex == RFind(p, "/")
        dotIndex == RFind(p, ".")
    IN  IF /\ dotIndex > sepIndex
           /\ \E k \in (sepIndex + 1)..(dotIndex - 1) : p[k] # "."
        THEN SubSeq(p, 1, dotIndex - 1)
        ELSE p

\* os.path.join(d, name) for a relative name.
Join(d, name) == d \o <<"/">> \o name

MkvExt == <<".", "m", "k", "v">>
OutSuffix == <<"_", "a", "l", "g", "o", "r", "i", "t", "h", "m", "_", "v", "i", "z",
               ".", "w", "e", "b", "p">>

-----------------------------------------------------------------------------
(* The file system *)

Exists(files, p) == p \in DOMAIN files
IsDir(files, p) == p \in DOMAIN files /\ files[p] = "dir"
IsFile(files, p) == p \in DOMAIN files /\ files[p] # "dir"

\* The external tool writing (or replacing, under -y) the file at path p.
WriteFile(files, p, content) ==
    [q \in (DOMAIN files) \cup {p} |-> IF q = p THEN content ELSE files[q]]

-----------------------------------------------------------------------------
(* check_ffmpeg *)

\* What running ['ffmpeg', '-version'] can do: exit 0, exit non-zero, fail to
\* launch with FileNotFoundError, or fail to launch with another OSError
\* (PermissionError for an ffmpeg on PATH that is not executable).
CheckOutcomes == {"ok", "nonzero", "not_found", "os_error"}

VersionCmd == <<"ffmpeg", "-version">>

\* One subprocess.run call: its argument list, and whether a process started
\* (it did not when the launch itself raised).
Proc(cmd, launched) == [cmd |-> cmd, launched |-> launched]

\* check_ffmpeg(): True on exit 0; False on non-zero exit or FileNotFoundError;
\* any other exception is not caught and propagates.
CheckFfmpeg(check) ==
    [ret |-> (check = "ok"), raised |-> (check = "os_error")]

-----------------------------------------------------------------------------
(* The command builder inside convert_mkv_to_webp *)

\* The mutant of ResizeFilters: the one-sided cases put -1 on the wrong side.
ResizeFiltersSwapped(width, height) ==
    IF Truthy(width) /\ Truthy(height)
    THEN <<"scale=" \o IntStr(width[1]) \o ":" \o IntStr(height[1])>>
    ELSE IF Truthy(width)
    THEN <<"scale=-1:" \o IntStr(width[1])>>
    ELSE IF Truthy(height)
    THEN <<"scale=" \o IntStr(height[1]) \o ":-1">>
    ELSE <<>>

\* The filters list after the "Resize" block.
ResizeFilters(width, height) ==
    IF Truthy(width) /\ Truthy(height)
    THEN <<"scale=" \o IntStr(width[1]) \o ":" \o IntStr(height[1])>>
    ELSE IF Truthy(width)
    THEN <<"scale=" \o IntStr(width[1]) \o ":-1">>
    ELSE IF Truthy(height)
    THEN <<"scale=-1:" \o IntStr(height[1])>>
    ELSE <<>>

RECURSIVE JoinComma(_)
\* ','.join(filters)
JoinComma(fl) ==
    IF fl = <<>> THEN ""
    ELSE IF Len(fl) = 1 THEN fl[1]
    ELSE fl[1] \o "," \o JoinComma(Tail(fl))

\* -ss / -t, emitted for a positive start_time and a truthy duration.
TimeArgs(o) ==
    (IF o.start_time > 0 THEN <<"-ss", FloatStr(o.start_time)>> ELSE <<>>)
    \o (IF Truthy(o.duration) THEN <<"-t", FloatStr(o.duration[1])>> ELSE <<>>)

\* The mutant of RateAndFilterArgs: the filter is emitted before the rate.
FilterBeforeRateArgs(o) ==
    LET filters == ResizeFilters(o.width, o.height)
    IN  (IF filters # <<>> THEN <<"-vf", JoinComma(filters)>> ELSE <<>>)
        \o <<"-r", IntStr(o.fps)>>

\* -r always, then -vf when the filters list is not empty.
RateAndFilterArgs(o) ==
    LET filters == ResizeFilters(o.width, o.height)
    IN  <<"-r", IntStr(o.fps)>>
        \o (IF filters # <<>> THEN <<"-vf", JoinComma(filters)>> ELSE <<>>)

\* The mutant of WebpArgs: the quality is emitted in lossless mode too.
WebpArgsQualityAlways(o) ==
    (IF o.lossless THEN <<"-lossless", "1">> ELSE <<>>)
    \o <<"-quality", IntStr(o.quality)>>

\* The WebP options: -lossless 1, or else -quality q.
WebpArgs(o) ==
    IF o.lossless THEN <<"-lossless", "1">> ELSE <<"-quality", IntStr(o.quality)>>

LoopArgs(o) == IF o.loop THEN <<"-loop", "0">> ELSE <<>>

OutputArgs(o, output_file) ==
    <<"-y", Str(output_file)>>
    \o (IF ~o.verbose THEN <<"-loglevel", "error">> ELSE <<>>)

\* cmd as it stands when subprocess.run is called.
BuildCmd(input_file, output_file, o) ==
    <<"ffmpeg">> \o <<"-i", Str(input_file)>>
    \o TimeArgs(o)
    \o RateAndFilterArgs(o)
    \o WebpArgs(o)
    \o LoopArgs(o)
    \o OutputArgs(o, output_file)

\* The output name derived when none is given.
DeriveOutput(input_file) == SplitextRoot(input_file) \o OutSuffix

-----------------------------------------------------------------------------
(* convert_mkv_to_webp *)

\* What running the conversion command can do: the launch raises, or the
\* process runs, exits with a code and has or has not written the output.
RunOutcomes ==
    {[launch |-> "error", returncode |-> 1, wrote |-> FALSE]}
    \cup [launch : {"ok"}, returncode : {0, 1}, wrote : BOOLEAN]

\* The mutant of InputMissing: the input path is never tested.
InputMissingNeverTested(files, input_file) == FALSE

\* "if not os.path.exists(input_file)".
InputMissing(files, input_file) == ~Exists(files, input_file)

\* The mutant of ConversionSucceeded: the exit code alone decides.
ConversionSucceededByExitCode(returncode, files, output_file) == returncode = 0

\* "if result.returncode == 0: if os.path.exists(output_file)".
ConversionSucceeded(returncode, files, output_file) ==
    returncode = 0 /\ Exists(files, output_file)

\* The result of one call: the returned value (a path, or None), whether an
\* exception left the call instead, the file system afterwards, the
\* subprocess calls made in order, and what was printed.
ConvertMkvToWebp(input_file, output_arg, o, files, check, run) ==
    LET avail == CheckFfmpeg(check)
        output_file == IF output_arg = None THEN DeriveOutput(input_file)
                       ELSE output_arg
        cmd == BuildCmd(input_file, output_file, o)
        after == IF run.launch = "ok" /\ run.wrote
                 THEN WriteFile(files, output_file, Str(input_file))
                 ELSE files
        base == [input_file |-> input_file, output_file |-> output_arg,
                 existed |-> Exists(files, input_file),
                 result |-> None, raised |-> FALSE, fs |-> files,
                 procs |-> <<Proc(VersionCmd, check \in {"ok", "nonzero"})>>,
                 wrote |-> FALSE, returncode |-> None, printed |-> <<>>]
        ran == [base EXCEPT !.output_file = output_file,
                            !.procs = @ \o <<Proc(cmd, TRUE)>>, !.fs = after,
                            !.wrote = run.wrote,
                            !.returncode = Some(run.returncode)]
    IN  IF avail.raised
        THEN [base EXCEPT !.raised = TRUE]
        ELSE IF ~avail.ret
        THEN [base EXCEPT !.printed = <<"ffmpeg_not_found", "install_suggestion">>]
        ELSE IF InputMissing(files, input_file)
        THEN [base EXCEPT !.printed = <<"input_not_found">>]
        ELSE IF run.launch # "ok"
        THEN [base EXCEPT !.output_file = output_file,
                          !.procs = @ \o <<Proc(cmd, FALSE)>>,
                          !.printed = <<"converting", "running", "error_running">>]
        ELSE IF run.returncode # 0
        THEN [ran EXCEPT !.printed = <<"converting", "running", "ffmpeg_error">>]
        ELSE IF ConversionSucceeded(run.returncode, after, output_file)
        THEN [ran EXCEPT !.result = output_file,
                         !.printed = <<"converting", "running", "success">>]
        ELSE [ran EXCEPT !.printed = <<"converting", "running", "output_not_created">>]

-----------------------------------------------------------------------------
(* get_video_info *)

\* r_frame_rate as ffprobe prints it, "num/den", or any other text: eval()
\* runs whatever expression the text holds.
Ratio(n, d) == [kind |-> "ratio", num |-> n, den |-> d]
Expr(raises) == [kind |-> "expr", raises |-> raises]

RateTexts == {Ratio(24, 1), Ratio(0, 0), Expr("SystemExit")}

\* eval(text): a value, or the exception the expression raises.
Eval(text) ==
    IF text.kind = "ratio"
    THEN IF text.den = 0
         THEN [raises |-> "ZeroDivisionError", value |-> None]
         ELSE [raises |-> "", value |-> <<text.num, text.den>>]
    ELSE [raises |-> text.raises, value |-> None]

\* except Exception: catches every exception but SystemExit,
\* KeyboardInterrupt and GeneratorExit.
CaughtByExceptException(e) == e \notin {"SystemExit", "KeyboardInterrupt", "GeneratorExit"}

Stream(codec_type, rate) ==
    [codec_type |-> codec_type, width |-> 640, height |-> 480,
     duration |-> 100, r_frame_rate |-> rate]

\* What running ffprobe can do: the launch raises, the process exits
\* non-zero, or it exits 0 and prints text that json.loads rejects or a
\* document with a list of streams.
ProbeOutcomes ==
    {[launch |-> "error", returncode |-> 1, parses |-> FALSE, streams |-> <<>>],
     [launch |-> "ok", returncode |-> 1, parses |-> FALSE, streams |-> <<>>],
     [launch |-> "ok", returncode |-> 0, parses |-> FALSE, streams |-> <<>>],
     [launch |-> "ok", returncode |-> 0, parses |-> TRUE, streams |-> <<>>],
     [launch |-> "ok", returncode |-> 0, parses |-> TRUE,
      streams |-> <<Stream("audio", Ratio(0, 0))>>]}
    \cup {[launch |-> "ok", returncode |-> 0, parses |-> TRUE,
           streams |-> <<Stream("audio", Ratio(0, 0)), Stream("video", r)>>] :
          r \in RateTexts}

EmptyInfo == <<None, None, None, None>>

ProbeCmd(input_file) ==
    <<"ffprobe", "-v", "quiet", "-print_format", "json",
      "-show_format", "-show_streams", Str(input_file)>>

\* The first stream whose codec_type is "video", 0 when there is none.
FirstVideo(streams) ==
    LET hits == {i \in 1..Len(streams) : streams[i].codec_type = "video"}
    IN  IF hits = {} THEN 0 ELSE CHOOSE i \in hits : \A j \in hits : i <= j

\* One call: the returned tuple, the exception that left the call ("" when it
\* returned), the subprocess call made, and what was printed.
GetVideoInfo(input_file, probe) ==
    LET base == [input_file |-> input_file, outcome |-> probe,
                 ret |-> EmptyInfo, raised |-> "",
                 procs |-> <<Proc(ProbeCmd(input_file), probe.launch = "ok")>>,
                 printed |-> <<>>]
        v == FirstVideo(probe.streams)
        fps == Eval(probe.streams[v].r_frame_rate)
    IN  IF probe.launch # "ok"
        THEN [base EXCEPT !.printed = <<"could_not_get_video_info">>]
        ELSE IF probe.returncode # 0
        THEN base
        ELSE IF ~probe.parses
        THEN [base EXCEPT !.printed = <<"could_not_get_video_info">>]
        ELSE IF v = 0
        THEN base
        ELSE IF fps.raises = ""
        THEN [base EXCEPT !.printed = <<"video_info">>,
                          !.ret = <<Some(probe.streams[v].duration),
                                    Some(probe.streams[v].width),
                                    Some(probe.streams[v].height),
                                    Some(fps.value)>>]
        ELSE IF CaughtByExceptException(fps.raises)
        THEN [base EXCEPT !.printed = <<"could_not_get_video_info">>]
        ELSE [base EXCEPT !.raised = fps.raises]

-----------------------------------------------------------------------------
(* The command line and the initial file system *)

InputDir == <<"d">>
SingleInput == <<"a", ".", "m", "k", "v">>
GivenOutput == <<"o">>

\* Entry names a listed directory may hold: two that differ only in the case
\* of the extension, two dot files, and one that is no .mkv file.
NamePool ==
    {<<"a", ".", "m", "k", "v">>, <<"a", ".", "M", "K", "V">>,
     <<".", "m", "k", "v">>, <<".", "m", "k", "v", ".", "m", "k", "v">>,
     <<"n", ".", "t", "x", "t">>}

\* os.listdir: distinct names, in any order.
Listings ==
    UNION {{l \in [1..n -> NamePool] : \A i, j \in 1..n : i # j => l[i] # l[j]} :
           n \in 0..MaxFiles}

\* argparse's defaults: -s 0, no -d, -f 12, no -w/-H, -q 80, loop on.
DefaultOptions ==
    [start_time |-> 0, duration |-> None, fps |-> DefaultFps,
     width |-> None, height |-> None, quality |-> DefaultQuality,
     lossless |-> FALSE, loop |-> TRUE, verbose |-> FALSE]

\* The option records the program is run with from the command line.
CliOptions ==
    {DefaultOptions,
     [start_time |-> 15, duration |-> Some(20), fps |-> DefaultFps,
      width |-> Some(1), height |-> None, quality |-> DefaultQuality,
      lossless |-> TRUE, loop |-> FALSE, verbose |-> TRUE]}

\* Every option record argparse can produce, within the bounds: -w/-H and -d
\* accept 0 as well as positive numbers.
AllOptions ==
    [start_time : {0, 15}, duration : {None, Some(0), Some(25)},
     fps : {1, DefaultFps},
     width : {None} \cup {Some(n) : n \in 0..MaxDim},
     height : {None} \cup {Some(n) : n \in 0..MaxDim},
     quality : {0, DefaultQuality}, lossless : BOOLEAN, loop : BOOLEAN,
     verbose : BOOLEAN]

NoArgs ==
    [has_args |-> FALSE, input |-> None, output |-> None, opts |-> DefaultOptions,
     batch |-> FALSE, info |-> FALSE]

CliArgs ==
    {NoArgs} \cup
    [has_args : {TRUE}, input : {InputDir, SingleInput}, output : {None, GivenOutput},
     opts : CliOptions, batch : BOOLEAN, info : BOOLEAN]

\* The disk before the run: the directory with its listed entries, the single
\* input file or not, and the derived outputs left by an earlier run or not.
InitialFs(l, single_exists, rerun) ==
    LET inputs == {Join(InputDir, l[i]) : i \in 1..Len(l)}
                  \cup (IF single_exists THEN {SingleInput} ELSE {})
        outputs == IF rerun THEN {DeriveOutput(p) : p \in inputs} ELSE {}
    IN  [p \in {InputDir} \cup inputs \cup outputs |->
            IF p = InputDir THEN "dir" ELSE IF p \in inputs THEN "src" ELSE "old"]

NoBatch == [mkv_files |-> <<>>, i |-> 0, success_count |-> 0,
            output_dir |-> None, report |-> None]

Init ==
    /\ argv \in CliArgs
    /\ listing \in Listings
    /\ \E single_exists \in BOOLEAN, rerun \in BOOLEAN :
          fs = InitialFs(listing, single_exists, rerun)
    /\ pc = "start"
    /\ batch = NoBatch
    /\ calls = <<>>
    /\ probes = <<>>
    /\ out = <<>>
    /\ status = None

-----------------------------------------------------------------------------
(* The main program *)

\* __main__ with no argument: the usage text, then sys.exit(1).
Usage ==
    /\ pc = "start"
    /\ ~argv.has_args
    /\ out' = out \o <<"usage">>
    /\ status' = Some(1)
    /\ pc' = "done"
    /\ UNCHANGED <<argv, fs, listing, batch, calls, probes>>

\* main, --info with an existing file: get_video_info, then return.
MainInfoProbe ==
    /\ pc = "start"
    /\ argv.has_args /\ argv.info
    /\ IsFile(fs, argv.input)
    /\ \E probe \in ProbeOutcomes :
          LET r == GetVideoInfo(argv.input, probe)
          IN  /\ probes' = Append(probes, r)
              /\ out' = out \o r.printed
    /\ status' = Some(0)
    /\ pc' = "done"
    /\ UNCHANGED <<argv, fs, listing, batch, calls>>

\* A mutant of MainInfoNoFile: the input is probed without the isfile test.
MainInfoNoFileProbes ==
    /\ pc = "start"
    /\ argv.has_args /\ argv.info
    /\ ~IsFile(fs, argv.input)
    /\ \E probe \in ProbeOutcomes :
          LET r == GetVideoInfo(argv.input, probe)
          IN  /\ probes' = Append(probes, r)
              /\ out' = out \o r.printed
    /\ status' = Some(0)
    /\ pc' = "done"
    /\ UNCHANGED <<argv, fs, listing, batch, calls>>

\* A mutant of MainInfoNoFile: the usage error ends the process with status 1.
MainInfoNoFileExitsOne ==
    /\ pc = "start"
    /\ argv.has_args /\ argv.info
    /\ ~IsFile(fs, argv.input)
    /\ out' = out \o <<"info_needs_file">>
    /\ status' = Some(1)
    /\ pc' = "done"
    /\ UNCHANGED <<argv, fs, listing, batch, calls, probes>>

\* main, --info with anything but an existing file: a message, then return.
MainInfoNoFile ==
    /\ pc = "start"
    /\ argv.has_args /\ argv.info
    /\ ~IsFile(fs, argv.input)
    /\ out' = out \o <<"info_needs_file">>
    /\ status' = Some(0)
    /\ pc' = "done"
    /\ UNCHANGED <<argv, fs, listing, batch, calls, probes>>

IsBatchRun == argv.batch \/ IsDir(fs, argv.input)

\* main's batch branch with batch_convert up to its loop: the directory test,
\* os.makedirs, the listing filtered by extension, the empty case.
BatchStart ==
    /\ pc = "start"
    /\ argv.has_args /\ ~argv.info
    /\ IsBatchRun
    /\ LET output_dir == IF argv.output = None THEN argv.input ELSE argv.output
           mkv_files == SelectSeq(listing, LAMBDA f : EndsWith(Lower(f), MkvExt))
       IN  IF ~IsDir(fs, argv.input)
           THEN /\ out' = out \o <<"directory_not_found">>
                /\ pc' = "done" /\ status' = Some(0)
                /\ UNCHANGED <<fs, batch>>
           ELSE IF IsFile(fs, output_dir)
           THEN \* os.makedirs raises FileExistsError, caught in main
                /\ out' = out \o <<"error">>
                /\ pc' = "done" /\ status' = Some(0)
                /\ UNCHANGED <<fs, batch>>
           ELSE IF mkv_files = <<>>
           THEN /\ fs' = WriteFile(fs, output_dir, "dir")
                /\ out' = out \o <<"no_mkv_files">>
                /\ pc' = "done" /\ status' = Some(0)
                /\ UNCHANGED batch
           ELSE /\ fs' = WriteFile(fs, output_dir, "dir")
                /\ out' = out \o <<"found">>
                /\ batch' = [mkv_files |-> mkv_files, i |-> 1, success_count |-> 0,
                             output_dir |-> output_dir, report |-> None]
                /\ pc' = "batch_loop"
                /\ UNCHANGED status
    /\ UNCHANGED <<argv, listing, calls, probes>>

\* The output path batch_convert derives for one listed name.
BatchOutputPath(output_dir, mkv_file) ==
    Join(output_dir, SplitextRoot(mkv_file) \o OutSuffix)

\* One iteration of batch_convert's loop.  An exception leaving
\* convert_mkv_to_webp leaves batch_convert too and is caught in main.
BatchItem ==
    /\ pc = "batch_loop"
    /\ batch.i <= Len(batch.mkv_files)
    /\ \E check \in CheckOutcomes, run \in RunOutcomes :
          LET mkv_file == batch.mkv_files[batch.i]
              r == ConvertMkvToWebp(Join(argv.input, mkv_file),
                                    BatchOutputPath(batch.output_dir, mkv_file),
                                    argv.opts, fs, check, run)
          IN  /\ calls' = Append(calls, r)
              /\ fs' = r.fs
              /\ IF r.raised
                 THEN /\ out' = out \o <<"converting_item">> \o r.printed \o <<"error">>
                      /\ pc' = "done" /\ status' = Some(0)
                      /\ UNCHANGED batch
                 ELSE /\ out' = out \o <<"converting_item">> \o r.printed
                      /\ batch' = [batch EXCEPT
                                     !.i = @ + 1,
                                     !.success_count =
                                         IF r.result # None THEN @ + 1 ELSE @]
                      /\ UNCHANGED <<pc, status>>
    /\ UNCHANGED <<argv, listing, probes>>

\* After the loop: the "Converted s/n files" line.
BatchFinish ==
    /\ pc = "batch_loop"
    /\ batch.i > Len(batch.mkv_files)
    /\ batch' = [batch EXCEPT !.report = <<batch.success_count, Len(batch.mkv_files)>>]
    /\ out' = out \o <<"converted">>
    /\ pc' = "done"
    /\ status' = Some(0)
    /\ UNCHANGED <<argv, fs, listing, calls, probes>>

\* main's single-file branch, first half: get_video_info, its result dropped.
\* SystemExit is caught by neither except clause of main.
MainSingleProbe ==
    /\ pc = "start"
    /\ argv.has_args /\ ~argv.info
    /\ ~IsBatchRun
    /\ \E probe \in ProbeOutcomes :
          LET r == GetVideoInfo(argv.input, probe)
          IN  /\ probes' = Append(probes, r)
              /\ out' = out \o <<"analyzing">> \o r.printed
              /\ IF r.raised # ""
                 THEN pc' = "done" /\ status' = Some(0)
                 ELSE pc' = "single_convert" /\ UNCHANGED status
    /\ UNCHANGED <<argv, fs, listing, batch, calls>>

\* main's single-file branch, second half: the conversion and, on success,
\* the size comparison (file sizes are not part of the state: the comparison
\* is its printed block).
MainSingleConvert ==
    /\ pc = "single_convert"
    /\ \E check \in CheckOutcomes, run \in RunOutcomes :
          LET r == ConvertMkvToWebp(argv.input, argv.output, argv.opts, fs, check, run)
          IN  /\ calls' = Append(calls, r)
              /\ fs' = r.fs
              /\ out' = out \o r.printed \o
                        (IF r.raised THEN <<"error">>
                         ELSE IF r.result # None THEN <<"compression">>
                         ELSE <<>>)
    /\ pc' = "done"
    /\ status' = Some(0)
    /\ UNCHANGED <<argv, listing, batch, probes>>

Next ==
    \/ Usage
    \/ MainInfoProbe
    \/ MainInfoNoFile
    \/ BatchStart
    \/ BatchItem
    \/ BatchFinish
    \/ MainSingleProbe
    \/ MainSingleConvert

Spec == Init /\ [][Next]_vars

-----------------------------------------------------------------------------
(* convert_mkv_to_webp called on its own, over every option record *)

InitCmd ==
    /\ argv \in [has_args : {TRUE}, input : {SingleInput}, output : {None, GivenOutput},
                 opts : AllOptions, batch : {FALSE}, info : {FALSE}]
    /\ listing = <<>>
    /\ fs = InitialFs(<<>>, TRUE, FALSE)
    /\ pc = "call"
    /\ batch = NoBatch
    /\ calls = <<>>
    /\ probes = <<>>
    /\ out = <<>>
    /\ status = None

CallConvert ==
    /\ pc = "call"
    /\ \E check \in CheckOutcomes, run \in RunOutcomes :
          LET r == ConvertMkvToWebp(argv.input, argv.output, argv.opts, fs, check, run)
          IN  /\ calls' = Append(calls, r)
              /\ fs' = r.fs
              /\ out' = out \o r.printed
    /\ pc' = "returned"
    /\ UNCHANGED <<argv, listing, batch, probes, status>>

NextCmd == CallConvert

SpecCmd == InitCmd /\ [][NextCmd]_vars

-----------------------------------------------------------------------------
(* Properties *)

Calls == {calls[k] : k \in 1..Len(calls)}

\* The conversion command of a call record, when the call got as far as
\* running it.
RanConversion(c) == Len(c.procs) = 2

\* C1: a call of convert_mkv_to_webp yields the output path exactly when the
\* conversion process exited with code 0 and the output file exists
\* afterwards; in every other outcome (tool missing, input missing, non-zero
\* exit, exit 0 without an output file, an exception at launch) no path is
\* returned.
Thm_C1_PathIffExitZeroAndFile ==
    \A c \in Calls :
        /\ (c.result # None) <=>
              /\ RanConversion(c) /\ c.procs[2].launched
              /\ c.returncode = Some(0)
              /\ Exists(c.fs, c.output_file)
        /\ c.result # None => c.result = c.output_file /\ ~c.raised

\* A batch in which one item succeeded and another exited 0 without any
\* output file on disk.
Wit_C1_SuccessAndOutputNotCreated ==
    \E c, d \in Calls :
        /\ c.result # None
        /\ d.returncode = Some(0) /\ ~Exists(d.fs, d.output_file) /\ d.result = None

\* C2 as stated: when the input path does not exist, the call returns failure
\* and no subprocess call of any kind is made during it.
Cex_C2_NoSubprocessAtAll ==
    \A c \in Calls : ~c.existed => c.result = None /\ ~c.raised /\ c.procs = <<>>

\* C2 as amended: when the input path does not exist, the call never runs the
\* conversion command and never yields a path; the one subprocess call it
\* makes is the availability check, ffmpeg -version, made before the input
\* path is tested.
Thm_C2_OnlyVersionCheckWhenInputMissing ==
    \A c \in Calls :
        ~c.existed =>
            /\ c.result = None
            /\ c.procs = <<Proc(VersionCmd, c.procs[1].launched)>>
            /\ c.returncode = None /\ ~c.wrote

\* A call on a missing input, with ffmpeg available, that returned failure.
Wit_C2_MissingInputToolPresent ==
    \E c \in Calls :
        /\ ~c.existed /\ ~c.raised
        /\ c.procs[1].launched
        /\ c.printed = <<"input_not_found">>

\* The matching entries of the listed directory, in listing order.
Matching == SelectSeq(listing, LAMBDA f : EndsWith(Lower(f), MkvExt))

BatchOnDirectory == argv.has_args /\ ~argv.info /\ IsDir(fs, argv.input)

RECURSIVE Successes(_)
\* How many of a sequence of call records returned a path.
Successes(cs) ==
    IF cs = <<>> THEN 0
    ELSE (IF Head(cs).result # None THEN 1 ELSE 0) + Successes(Tail(cs))

\* C3 as stated: a batch over an existing directory with N matching files
\* calls convert_mkv_to_webp once per matching file, in order, whatever the
\* earlier items did; with N = 0 it prints the no-files notice and makes no
\* call; with N > 0 it reports (successes, N); an unavailable tool is
\* reported for each item.
Cex_C3_OncePerFileAndCount ==
    (BatchOnDirectory /\ pc = "done") =>
        /\ Len(calls) = Len(Matching)
        /\ \A k \in 1..Len(calls) :
              /\ calls[k].input_file = Join(argv.input, Matching[k])
              /\ ~calls[k].raised
              /\ ~calls[k].procs[1].launched =>
                    calls[k].printed = <<"ffmpeg_not_found", "install_suggestion">>
        /\ Matching = <<>> => out = <<"no_mkv_files">>
        /\ Matching # <<>> => batch.report = <<Successes(calls), Len(Matching)>>

\* C7: with --info and an input that is no existing file, the usage message
\* is printed and get_video_info is not called; with --info no conversion
\* and no batch is ever run.
Thm_C7_InfoModeNeverConverts ==
    (argv.has_args /\ argv.info) =>
        /\ calls = <<>>
        /\ batch = NoBatch
        /\ pc \in {"start", "done"}
        /\ ~IsFile(fs, argv.input) =>
              /\ probes = <<>>
              /\ pc = "done" => out = <<"info_needs_file">>

\* --info on the directory has finished.
Wit_C7_InfoOnDirectoryDone ==
    /\ argv.has_args /\ argv.info /\ argv.input = InputDir
    /\ pc = "done" /\ out = <<"info_needs_file">>

ProbeFailed(probe) ==
    /\ probe.launch = "ok"
    /\ \/ probe.returncode # 0
       \/ ~probe.parses
       \/ FirstVideo(probe.streams) = 0

\* C9 as stated: whatever the inspection process does, get_video_info returns
\* to its caller; on output that does not parse, on no video stream and on a
\* non-zero exit it returns the empty result and prints a diagnostic; and
\* the single-file path goes on to the conversion whatever the probe gave.
Cex_C9_ProbeNeverAbortsAndLogs ==
    /\ \A k \in 1..Len(probes) :
          /\ probes[k].raised = ""
          /\ ProbeFailed(probes[k].outcome) =>
                /\ probes[k].ret = EmptyInfo
                /\ probes[k].printed = <<"could_not_get_video_info">>
    /\ (argv.has_args /\ ~argv.info /\ probes # <<>>) =>
          /\ pc \in {"single_convert", "done"}
          /\ pc = "done" => Len(calls) = 1

\* C10 as stated: in one batch run any two distinct matching files get
\* distinct output paths, so no conversion writes over the output of another
\* item that was counted as a success.
Cex_C10_DistinctOutputs ==
    pc = "batch_loop" =>
        /\ \A i, j \in 1..Len(batch.mkv_files) :
              i # j =>
                  BatchOutputPath(batch.output_dir, batch.mkv_files[i])
                      # BatchOutputPath(batch.output_dir, batch.mkv_files[j])
        /\ \A i, j \in 1..Len(calls) :
              (i < j /\ calls[i].result # None /\ calls[j].wrote) =>
                  calls[j].output_file # calls[i].output_file

-----------------------------------------------------------------------------
(* Properties of the built command *)

\* A ConversionOptions record: start_time not negative, duration absent or
\* positive, frame_rate positive, width and height absent or positive,
\* quality within 0..100.
IsConversionOptions(o) ==
    /\ o.start_time >= 0
    /\ o.duration = None \/ o.duration[1] > 0
    /\ o.fps > 0
    /\ o.width = None \/ o.width[1] > 0
    /\ o.height = None \/ o.height[1] > 0
    /\ o.quality \in 0..100

\* The conversion commands that were run, each with the paths it was built for.
Built == {c \in Calls : RanConversion(c)}

Positions(cmd, token) == {i \in 1..Len(cmd) : cmd[i] = token}

\* The flag occurs once and the next token is the value.
FlagWithValue(cmd, flag, value) ==
    /\ Cardinality(Positions(cmd, flag)) = 1
    /\ \A i \in Positions(cmd, flag) : i < Len(cmd) /\ cmd[i + 1] = value

Absent(cmd, token) == Positions(cmd, token) = {}

ScaleText(w, h) == "scale=" \o IntStr(w) \o ":" \o IntStr(h)

\* Every filter text a width and a height within the bounds can give.
ScaleTexts == {ScaleText(w, h) : w, h \in {-1} \cup (0..MaxDim)}

\* C4: the scale filter of the built command follows from width and height
\* alone: both given, -vf scale=W:H; width only, -vf scale=W:-1; height
\* only, -vf scale=-1:H; neither, no -vf and no filter text in the command.
Thm_C4_ScaleFilter ==
    \A c \in Built :
        LET cmd == c.procs[2].cmd
            w == argv.opts.width
            h == argv.opts.height
        IN  IsConversionOptions(argv.opts) =>
              /\ (w # None /\ h # None) =>
                    FlagWithValue(cmd, "-vf", ScaleText(w[1], h[1]))
              /\ (w # None /\ h = None) =>
                    FlagWithValue(cmd, "-vf", ScaleText(w[1], -1))
              /\ (w = None /\ h # None) =>
                    FlagWithValue(cmd, "-vf", ScaleText(-1, h[1]))
              /\ (w = None /\ h = None) =>
                    /\ Absent(cmd, "-vf")
                    /\ \A t \in ScaleTexts : Absent(cmd, t)
              /\ \A t \in ScaleTexts :
                    ~Absent(cmd, t) => FlagWithValue(cmd, "-vf", t)

\* A command was built for a width alone, and its filter keeps the aspect.
Wit_C4_WidthOnly ==
    \E c \in Built :
        /\ IsConversionOptions(argv.opts)
        /\ argv.opts.width = Some(MaxDim) /\ argv.opts.height = None
        /\ FlagWithValue(c.procs[2].cmd, "-vf", ScaleText(MaxDim, -1))

\* C5: every built command holds exactly one of -quality and -lossless:
\* -lossless 1 exactly when lossless is set, -quality <quality> exactly when
\* it is not, never both.
Thm_C5_QualityXorLossless ==
    \A c \in Built :
        LET cmd == c.procs[2].cmd
            o == argv.opts
        IN  /\ o.lossless <=> ~Absent(cmd, "-lossless")
            /\ ~o.lossless <=> ~Absent(cmd, "-quality")
            /\ o.lossless => FlagWithValue(cmd, "-lossless", "1")
            /\ ~o.lossless => FlagWithValue(cmd, "-quality", IntStr(o.quality))
            /\ Absent(cmd, "-lossless") \/ Absent(cmd, "-quality")

\* A lossless command was built from options that also carry a quality.
Wit_C5_LosslessBuilt ==
    \E c \in Built :
        /\ argv.opts.lossless /\ argv.opts.quality = DefaultQuality
        /\ FlagWithValue(c.procs[2].cmd, "-lossless", "1")

\* C6: the argument list is a function of the options and the two paths: in
\* this order, -i input; -ss start iff start_time > 0; -t duration iff a
\* duration is set; -r fps; -vf filter iff a scale filter was built;
\* -lossless 1 or -quality q; -loop 0 iff loop; -y output; -loglevel error
\* iff not verbose.
Thm_C6_ArgumentOrder ==
    \A c \in Built :
        LET o == argv.opts
            scaled == o.width # None \/ o.height # None
            filter == ScaleText(IF o.width # None THEN o.width[1] ELSE -1,
                                IF o.height # None THEN o.height[1] ELSE -1)
        IN  IsConversionOptions(o) =>
              Tail(c.procs[2].cmd) =
                  <<"-i", Str(c.input_file)>>
                  \o (IF o.start_time > 0 THEN <<"-ss", FloatStr(o.start_time)>> ELSE <<>>)
                  \o (IF o.duration # None THEN <<"-t", FloatStr(o.duration[1])>> ELSE <<>>)
                  \o <<"-r", IntStr(o.fps)>>
                  \o (IF scaled THEN <<"-vf", filter>> ELSE <<>>)
                  \o (IF o.lossless THEN <<"-lossless", "1">>
                      ELSE <<"-quality", IntStr(o.quality)>>)
                  \o (IF o.loop THEN <<"-loop", "0">> ELSE <<>>)
                  \o <<"-y", Str(c.output_file)>>
                  \o (IF o.verbose THEN <<>> ELSE <<"-loglevel", "error">>)

\* A command was built with every optional part present.
Wit_C6_EveryPartPresent ==
    \E c \in Built :
        LET o == argv.opts
        IN  /\ IsConversionOptions(o)
            /\ o.start_time > 0 /\ o.duration # None
            /\ o.width # None /\ o.height # None
            /\ o.loop /\ ~o.verbose /\ ~o.lossless
            /\ \A flag \in {"-ss", "-t", "-r", "-vf", "-quality", "-loop", "-y", "-loglevel"} :
                  ~Absent(c.procs[2].cmd, flag)

====
